---- MODULE Spec2Model ----
(***************************************************************************)
(* Model of brokenspoke's bna-fargate-run lambda (function_handler): one   *)
(* invocation authenticates, reports the pre-dispatch phase, resolves six  *)
(* configuration values, rewrites the database URL host, submits one       *)
(* Fargate task and reports again.  Each external call is one action; its  *)
(* response is chosen nondeterministically.                                *)
(*                                                                         *)
(* Strings that the code parses (urls) are sequences of tokens; an         *)
(* Option<T> is a sequence of length 0 (None) or 1 (Some).                 *)
(***************************************************************************)
EXTENDS Integers, Sequences, FiniteSets, TLC

VARIABLES inv, calls, tracker, launched, brochure, city

vars == <<inv, calls, tracker, launched, brochure, city>>

\* ------------------------------------------------------------------ bounds

\* Number of events the lambda runtime delivers to the handler (main's
\* run(service_fn(function_handler)) loop serves them one after the other).
MaxInvocations == 1

Invocations == 1..MaxInvocations

\* ----------------------------------------------------------------- options

None == <<>>
Some(x) == <<x>>
IsSome(o) == Len(o) = 1
Unwrap(o) == o[1]

\* ------------------------------------------------------------ url (tokens)

Delims == {":", "//", "/", "@"}

\* Schemes the url crate treats as special, with their default ports.
SpecialSchemes == {"http"}
DefaultPort(scheme) == IF scheme = "http" THEN Some("80") ELSE None

PortTokens == {"5432", "80"}

\* Host tokens holding a forbidden host code point (a space).
ForbiddenHostTokens == {"ep 1"}

UrlOk(u) == [ok |-> TRUE, url |-> u, err |-> ""]
UrlErr(e) == [ok |-> FALSE, url |-> <<>>, err |-> e]

\* Index of the first element of s equal to d, or Len(s) + 1.
IndexOf(s, d) ==
    IF \E k \in 1..Len(s) : s[k] = d
    THEN CHOOSE k \in 1..Len(s) : s[k] = d /\ \A j \in 1..(k - 1) : s[j] # d
    ELSE Len(s) + 1

\* Index of the last element of s equal to d, or 0.
LastIndexOf(s, d) ==
    IF \E k \in 1..Len(s) : s[k] = d
    THEN CHOOSE k \in 1..Len(s) : s[k] = d /\ \A j \in (k + 1)..Len(s) : s[j] # d
    ELSE 0

\* Authority and path of a hierarchical url: [userinfo "@"] host [":" port] path.
ParseAuthority(scheme, a) ==
    LET authEnd  == IndexOf(a, "/")
        auth     == SubSeq(a, 1, authEnd - 1)
        rawPath  == SubSeq(a, authEnd, Len(a))
        at       == LastIndexOf(auth, "@")
        userinfo == SubSeq(auth, 1, at - 1)
        hostport == SubSeq(auth, at + 1, Len(auth))
        colonU   == IndexOf(userinfo, ":")
        username == IF colonU = 1 THEN "" ELSE userinfo[1]
        password == IF colonU >= Len(userinfo) THEN None
                    ELSE Some(userinfo[colonU + 1])
        colonH   == IndexOf(hostport, ":")
        hostToks == SubSeq(hostport, 1, colonH - 1)
        portToks == SubSeq(hostport, colonH + 1, Len(hostport))
        port     == IF portToks = <<>> \/ Some(portToks[1]) = DefaultPort(scheme)
                    THEN None ELSE Some(portToks[1])
        path     == IF rawPath = <<>> /\ scheme \in SpecialSchemes
                    THEN <<"/">> ELSE rawPath
    IN  IF Len(hostToks) > 1 THEN UrlErr("InvalidDomainCharacter")
        ELSE IF hostToks # <<>> /\ hostToks[1] \in ForbiddenHostTokens
        THEN UrlErr("InvalidDomainCharacter")
        ELSE IF hostToks = <<>> /\
                (scheme \in SpecialSchemes \/ userinfo # <<>> \/ portToks # <<>>)
        THEN UrlErr("EmptyHost")
        ELSE IF Len(userinfo) > 3 \/ (Len(userinfo) = 3 /\ colonU # 2)
        THEN UrlErr("InvalidDomainCharacter")
        ELSE IF Len(portToks) > 1 \/ (portToks # <<>> /\ portToks[1] \notin PortTokens)
        THEN UrlErr("InvalidPort")
        ELSE UrlOk([scheme |-> scheme, username |-> username, password |-> password,
                    host |-> IF hostToks = <<>> THEN None ELSE Some(hostToks[1]),
                    port |-> port, path |-> path,
                    has_authority |-> TRUE, cannot_be_a_base |-> FALSE])

\* Url::parse: scheme ":" then "//" authority path, or a path alone.
UrlParse(s) ==
    IF Len(s) < 2 \/ s[1] \in Delims \/ s[2] # ":"
    THEN UrlErr("RelativeUrlWithoutBase")
    ELSE LET scheme == s[1]
             rest   == SubSeq(s, 3, Len(s))
         IN  IF rest # <<>> /\ rest[1] = "//"
             THEN ParseAuthority(scheme, Tail(rest))
             ELSE IF scheme \in SpecialSchemes
             THEN ParseAuthority(scheme,
                     IF rest # <<>> /\ rest[1] = "/" THEN Tail(rest) ELSE rest)
             ELSE UrlOk([scheme |-> scheme, username |-> "", password |-> None,
                         host |-> None, port |-> None, path |-> rest,
                         has_authority |-> FALSE,
                         cannot_be_a_base |-> (rest = <<>> \/ rest[1] # "/")])

\* Mutant of UrlSetHost: the port is reset along with the host.
UrlSetHost_ResetsPort(u, host) ==
    IF u.cannot_be_a_base THEN UrlErr("SetHostOnCannotBeABaseUrl")
    ELSE IF host = "" /\ u.scheme \in SpecialSchemes THEN UrlErr("EmptyHost")
    ELSE IF host \in ForbiddenHostTokens THEN UrlErr("InvalidDomainCharacter")
    ELSE UrlOk([u EXCEPT !.host = Some(host), !.port = None, !.has_authority = TRUE])

\* Url::set_host(Some(host)): only the host component changes.
UrlSetHost(u, host) ==
    IF u.cannot_be_a_base THEN UrlErr("SetHostOnCannotBeABaseUrl")
    ELSE IF host = "" /\ u.scheme \in SpecialSchemes THEN UrlErr("EmptyHost")
    ELSE IF host \in ForbiddenHostTokens THEN UrlErr("InvalidDomainCharacter")
    ELSE UrlOk([u EXCEPT !.host = Some(host), !.has_authority = TRUE])

\* The url's serialization (Url -> String, as passed to KeyValuePair::value).
UrlString(u) ==
    <<u.scheme, ":">>
    \o (IF u.has_authority
        THEN <<"//">>
             \o (IF u.username # "" \/ IsSome(u.password)
                 THEN (IF u.username # "" THEN <<u.username>> ELSE <<>>)
                      \o (IF IsSome(u.password) THEN <<":", Unwrap(u.password)>> ELSE <<>>)
                      \o <<"@">>
                 ELSE <<>>)
             \o (IF IsSome(u.host) THEN <<Unwrap(u.host)>> ELSE <<>>)
             \o (IF IsSome(u.port) THEN <<":", Unwrap(u.port)>> ELSE <<>>)
        ELSE <<>>)
    \o u.path

\* ------------------------------------------------------------------ inputs

Countries == {"us"}
Cities == {"bna"}
Regions == {None, Some("tn")}
FipsCodes == {None, Some("47")}
NeonHosts == {"ep-1.example", "ep 1"}

\* Workflow contexts: the execution id ids() derives, or None when the
\* execution's identifier cannot be parsed.
Contexts == {[execution |-> Some("exec-1")], [execution |-> Some("exec-2")],
             [execution |-> None]}

AnalysisParametersSet ==
    [country : Countries, city : Cities, region : Regions, fips_code : FipsCodes]

TaskInputs ==
    [analysis_parameters : AnalysisParametersSet,
     setup : [neon : [host : NeonHosts]],
     context : Contexts]

\* Values the secret DATABASE_URL may hold.
DbUrls ==
    { <<"postgres", ":", "//", "u", ":", "p", "@", "shared-host", ":", "5432", "/", "db">>,
      <<"postgres", ":", "//", "shared-host", "/", "db">>,
      <<"http", ":", "//", "u", "@", "shared-host", ":", "80">>,
      <<"postgres", ":", "/", "db">>,
      <<"shared-host", "/", "db">>,
      <<"postgres", ":", "//", "shared-host", ":", "db">>,
      <<"mailto", ":", "u">> }

\* Values held by the parameter store.
ParameterStore ==
    [BNA_CLUSTER_ARN |-> "cluster-1", PRIVATE_SUBNETS |-> "subnet-1",
     BNA_TASK_SECURITY_GROUP |-> "sg-1", BNA_TASK_DEFINITION |-> "taskdef-1",
     BNA_BUCKET |-> "bna-bucket"]

\* ------------------------------------------------------------------- state

NoResult == [kind |-> "None", error |-> "", output |-> None]
Ok(output) == [kind |-> "Ok", error |-> "", output |-> Some(output)]
Err(e) == [kind |-> "Err", error |-> e, output |-> None]
Panicked(e) == [kind |-> "Panic", error |-> e, output |-> None]

\* The locals of function_handler, before the event is delivered.
IdleInvocation ==
    [pc |-> "idle", payload |-> None, auth |-> None, state_machine_id |-> None,
     main_db_url |-> <<>>, ecs_cluster_arn |-> "", vpc_subnets |-> "",
     vpc_security_groups |-> "", task_definition |-> "", s3_bucket |-> "",
     database_url |-> None, container_command |-> <<>>,
     run_task_output |-> None, output |-> None, result |-> NoResult]

Finished == {"returned", "panicked"}

\* The brochure pipeline before it runs: its position, the entries of the
\* output directory, the steps performed and their outcomes, the collected
\* SVG file names and the value main returns.
IdleBrochure ==
    [pc |-> "setup", dir |-> {}, log |-> <<>>, svg_files |-> {}, result |-> "None"]

\* No City has been built.
NoCity == [args |-> None, value |-> None]

Init ==
    /\ inv = [i \in Invocations |-> IdleInvocation]
    /\ calls = [i \in Invocations |-> <<>>]
    /\ tracker = <<>>
    /\ launched = 0
    /\ brochure = IdleBrochure
    /\ city = NoCity

\* The log of invocation i's external calls: the operation, its argument and
\* whether it succeeded.
Call(i, op, arg, ok) ==
    calls' = [calls EXCEPT ![i] = Append(@, [op |-> op, arg |-> arg, ok |-> ok])]

\* The steps of function_handler leave the other programs' state alone.
Return(i, l, r) ==
    /\ inv' = [inv EXCEPT ![i] = [l EXCEPT !.pc = "returned", !.result = r]]
    /\ UNCHANGED <<brochure, city>>
Panic(i, l, e) ==
    /\ inv' = [inv EXCEPT ![i] = [l EXCEPT !.pc = "panicked", !.result = Panicked(e)]]
    /\ UNCHANGED <<brochure, city>>
Goto(i, l, pc) ==
    /\ inv' = [inv EXCEPT ![i] = [l EXCEPT !.pc = pc]]
    /\ UNCHANGED <<brochure, city>>

\* ------------------------------------------------------- pipeline records

\* BrokenspokePipeline::default(): every optional field unset.
DefaultPipeline == [state_machine_id |-> None, state |-> None, fargate_task_id |-> None]

\* The record reported before the dispatch.
PreDispatchPipeline(state_machine_id) ==
    [DefaultPipeline EXCEPT !.state_machine_id = Some(state_machine_id),
                            !.state = Some("Pipeline")]

\* Mutant of PostDispatchPipeline: the record is left at its defaults.
PostDispatchPipeline_Default(state_machine_id, task) == DefaultPipeline

\* The record reported after the dispatch; `task` is the first task of the
\* RunTask response (the assignment of fargate_task_id is commented out).
PostDispatchPipeline(state_machine_id, task) ==
    [DefaultPipeline EXCEPT !.state_machine_id = Some(state_machine_id)]

\* context.execution.ids(): the state machine id of the execution.
ExecutionIdsOf(context) == context.execution

\* ----------------------------------------------------------------- actions

\* The runtime delivers an event to function_handler.
Invoke(i) ==
    /\ inv[i].pc = "idle"
    /\ \A j \in 1..(i - 1) : inv[j].pc \in Finished
    /\ \E p \in TaskInputs :
          inv' = [inv EXCEPT ![i] = [@ EXCEPT !.pc = "authenticate", !.payload = Some(p)]]
    /\ UNCHANGED <<calls, tracker, launched, brochure, city>>

Authenticate(i) ==
    LET l == inv[i] IN
    /\ l.pc = "authenticate"
    /\ \/ /\ Call(i, "authenticate_service_account", <<>>, TRUE)
          /\ Goto(i, [l EXCEPT !.auth = Some("token")], "ids")
       \/ /\ Call(i, "authenticate_service_account", <<>>, FALSE)
          /\ Return(i, l, Err("cannot authenticate service account"))
    /\ UNCHANGED <<tracker, launched>>

\* Mutant of ReadInputs: the context is read from a slot shared by the
\* invocations, which holds the event delivered last.
ReadInputs_SharedEvent(i) ==
    LET l      == inv[i]
        latest == CHOOSE j \in DOMAIN inv :
                     /\ IsSome(inv[j].payload)
                     /\ \A k \in DOMAIN inv : IsSome(inv[k].payload) => k <= j
        ids    == ExecutionIdsOf(Unwrap(inv[latest].payload).context)
    IN
    /\ l.pc = "ids"
    /\ IF IsSome(ids)
       THEN Goto(i, [l EXCEPT !.state_machine_id = ids], "update_pipeline_pre")
       ELSE Return(i, l, Err("ids"))
    /\ UNCHANGED <<calls, tracker, launched>>

ReadInputs(i) ==
    LET l   == inv[i]
        ids == ExecutionIdsOf(Unwrap(l.payload).context)
    IN
    /\ l.pc = "ids"
    /\ IF IsSome(ids)
       THEN Goto(i, [l EXCEPT !.state_machine_id = ids], "update_pipeline_pre")
       ELSE Return(i, l, Err("ids"))
    /\ UNCHANGED <<calls, tracker, launched>>

UpdatePipelinePre(i) ==
    LET l        == inv[i]
        pipeline == PreDispatchPipeline(Unwrap(l.state_machine_id))
    IN
    /\ l.pc = "update_pipeline_pre"
    /\ \/ /\ Call(i, "update_pipeline", pipeline, TRUE)
          /\ tracker' = Append(tracker, pipeline)
          /\ Goto(i, l, "aws_client")
       \/ /\ Call(i, "update_pipeline", pipeline, FALSE)
          /\ UNCHANGED tracker
          /\ Return(i, l, Err("update_pipeline"))
    /\ UNCHANGED launched

PrepareAwsClient(i) ==
    LET l == inv[i] IN
    /\ l.pc = "aws_client"
    /\ Goto(i, l, "DATABASE_URL")
    /\ UNCHANGED <<calls, tracker, launched>>

\* The six lookups, in the order the handler issues them, and the local each
\* one binds.
LookupOrder ==
    <<"DATABASE_URL", "BNA_CLUSTER_ARN", "PRIVATE_SUBNETS",
      "BNA_TASK_SECURITY_GROUP", "BNA_TASK_DEFINITION", "BNA_BUCKET">>

LookupLocal ==
    [DATABASE_URL |-> "main_db_url", BNA_CLUSTER_ARN |-> "ecs_cluster_arn",
     PRIVATE_SUBNETS |-> "vpc_subnets", BNA_TASK_SECURITY_GROUP |-> "vpc_security_groups",
     BNA_TASK_DEFINITION |-> "task_definition", BNA_BUCKET |-> "s3_bucket"]

\* Mutant of AfterLookup: the lookup of PRIVATE_SUBNETS is left out.
AfterLookup_SkipsSubnets(name) ==
    LET k == CHOOSE j \in 1..Len(LookupOrder) : LookupOrder[j] = name
    IN  IF k = 2 THEN LookupOrder[4]
        ELSE IF k < Len(LookupOrder) THEN LookupOrder[k + 1] ELSE "url_parse"

\* The step that follows the lookup of `name`.
AfterLookup(name) ==
    LET k == CHOOSE j \in 1..Len(LookupOrder) : LookupOrder[j] = name
    IN  IF k < Len(LookupOrder) THEN LookupOrder[k + 1] ELSE "url_parse"

\* get_aws_secrets_value("DATABASE_URL", "DATABASE_URL").await?
GetSecret(i) ==
    LET l == inv[i] IN
    /\ l.pc = "DATABASE_URL"
    /\ \/ /\ Call(i, "get_aws_secrets_value", l.pc, TRUE)
          /\ \E v \in DbUrls :
                Goto(i, [l EXCEPT ![LookupLocal[l.pc]] = v], AfterLookup(l.pc))
       \/ /\ Call(i, "get_aws_secrets_value", l.pc, FALSE)
          /\ Return(i, l, Err("get_aws_secrets_value"))
    /\ UNCHANGED <<tracker, launched>>

\* Mutant of GetParameter: a failed lookup falls back to an empty value.
GetParameter_FallsBack(i) ==
    LET l == inv[i] IN
    /\ l.pc \in DOMAIN ParameterStore
    /\ \/ /\ Call(i, "get_aws_parameter", l.pc, TRUE)
          /\ Goto(i, [l EXCEPT ![LookupLocal[l.pc]] = ParameterStore[l.pc]],
                  AfterLookup(l.pc))
       \/ /\ Call(i, "get_aws_parameter", l.pc, FALSE)
          /\ Goto(i, [l EXCEPT ![LookupLocal[l.pc]] = ""], AfterLookup(l.pc))
    /\ UNCHANGED <<tracker, launched>>

\* Mutant of GetParameter: a failed lookup is tried again.
GetParameter_Retries(i) ==
    LET l == inv[i] IN
    /\ l.pc \in DOMAIN ParameterStore
    /\ \/ /\ Call(i, "get_aws_parameter", l.pc, TRUE)
          /\ Goto(i, [l EXCEPT ![LookupLocal[l.pc]] = ParameterStore[l.pc]],
                  AfterLookup(l.pc))
       \/ /\ Call(i, "get_aws_parameter", l.pc, FALSE)
          /\ IF Len(calls[i]) < 12 THEN Goto(i, l, l.pc)
             ELSE Return(i, l, Err("get_aws_parameter"))
    /\ UNCHANGED <<tracker, launched>>

\* get_aws_parameter(name).await?
GetParameter(i) ==
    LET l == inv[i] IN
    /\ l.pc \in DOMAIN ParameterStore
    /\ \/ /\ Call(i, "get_aws_parameter", l.pc, TRUE)
          /\ Goto(i, [l EXCEPT ![LookupLocal[l.pc]] = ParameterStore[l.pc]],
                  AfterLookup(l.pc))
       \/ /\ Call(i, "get_aws_parameter", l.pc, FALSE)
          /\ Return(i, l, Err("get_aws_parameter"))
    /\ UNCHANGED <<tracker, launched>>

\* let mut database_url = Url::parse(&main_db_url)?;
ParseDatabaseUrl(i) ==
    LET l == inv[i]
        r == UrlParse(l.main_db_url)
    IN
    /\ l.pc = "url_parse"
    /\ IF r.ok
       THEN Goto(i, [l EXCEPT !.database_url = Some(r.url)], "set_host")
       ELSE Return(i, l, Err(r.err))
    /\ UNCHANGED <<calls, tracker, launched>>

\* database_url.set_host(Some(neon_host))?;
SetDatabaseHost(i) ==
    LET l == inv[i]
        r == UrlSetHost(Unwrap(l.database_url), Unwrap(l.payload).setup.neon.host)
    IN
    /\ l.pc = "set_host"
    /\ IF r.ok
       THEN Goto(i, [l EXCEPT !.database_url = Some(r.url)], "command")
       ELSE Return(i, l, Err(r.err))
    /\ UNCHANGED <<calls, tracker, launched>>

\* Mutant of ContainerCommand: fips_code is pushed before region.
ContainerCommand_FipsFirst(s3_bucket, ap) ==
    LET base == <<"-vv", "run", "--with-export", "s3", "--s3-bucket",
                  s3_bucket, ap.country, ap.city>>
    IN  IF IsSome(ap.region)
        THEN IF IsSome(ap.fips_code)
             THEN [ok |-> TRUE,
                   command |-> Append(Append(base, Unwrap(ap.fips_code)), Unwrap(ap.region))]
             ELSE [ok |-> FALSE, command |-> base]
        ELSE [ok |-> TRUE, command |-> base]

\* The command of the container; unwrapping an absent fips_code panics.
ContainerCommand(s3_bucket, ap) ==
    LET base == <<"-vv", "run", "--with-export", "s3", "--s3-bucket",
                  s3_bucket, ap.country, ap.city>>
    IN  IF IsSome(ap.region)
        THEN IF IsSome(ap.fips_code)
             THEN [ok |-> TRUE,
                   command |-> Append(Append(base, Unwrap(ap.region)), Unwrap(ap.fips_code))]
             ELSE [ok |-> FALSE, command |-> Append(base, Unwrap(ap.region))]
        ELSE [ok |-> TRUE, command |-> base]

PrepareCommand(i) ==
    LET l == inv[i]
        c == ContainerCommand(l.s3_bucket, Unwrap(l.payload).analysis_parameters)
    IN
    /\ l.pc = "command"
    /\ IF c.ok
       THEN Goto(i, [l EXCEPT !.container_command = c.command], "run_task")
       ELSE Panic(i, [l EXCEPT !.container_command = c.command], "unwrap on None: fips_code")
    /\ UNCHANGED <<calls, tracker, launched>>

\* Mutant of FARGATE_MAX_TASK: two tasks per request.
FARGATE_MAX_TASK_Two == 1 + 1

FARGATE_MAX_TASK == 1

\* Mutant of RunTaskRequest: subnets and security groups are exchanged.
RunTaskRequest_SwapsNetwork(l) ==
    [cluster |-> l.ecs_cluster_arn,
     count |-> FARGATE_MAX_TASK,
     launch_type |-> "FARGATE",
     network_configuration |->
        [awsvpc_configuration |->
            [subnets |-> <<l.vpc_security_groups>>,
             security_groups |-> <<l.vpc_subnets>>,
             assign_public_ip |-> "ENABLED"]],
     overrides |->
        [container_overrides |->
            << [name |-> "brokenspoke-analyzer",
                command |-> l.container_command,
                environment |->
                    << [name |-> "DATABASE_URL",
                        value |-> UrlString(Unwrap(l.database_url))] >>] >>],
     task_definition |-> l.task_definition]

\* The RunTask request built from the locals l.
RunTaskRequest(l) ==
    [cluster |-> l.ecs_cluster_arn,
     count |-> FARGATE_MAX_TASK,
     launch_type |-> "FARGATE",
     network_configuration |->
        [awsvpc_configuration |->
            [subnets |-> <<l.vpc_subnets>>,
             security_groups |-> <<l.vpc_security_groups>>,
             assign_public_ip |-> "ENABLED"]],
     overrides |->
        [container_overrides |->
            << [name |-> "brokenspoke-analyzer",
                command |-> l.container_command,
                environment |->
                    << [name |-> "DATABASE_URL",
                        value |-> UrlString(Unwrap(l.database_url))] >>] >>],
     task_definition |-> l.task_definition]

\* Mutant of RunTask: nothing is submitted once a task has been launched.
RunTask_Guarded(i) ==
    LET l   == inv[i]
        req == RunTaskRequest(l)
    IN
    /\ l.pc = "run_task"
    /\ IF launched > 0
       THEN /\ UNCHANGED <<calls, launched>>
            /\ Return(i, l, Err("already dispatched"))
       ELSE \/ \E n \in 0..req.count :
                 /\ Call(i, "run_task", req, TRUE)
                 /\ launched' = launched + n
                 /\ Goto(i, [l EXCEPT !.run_task_output =
                               Some([tasks |-> [k \in 1..n |->
                                       [cluster_arn |-> Some(req.cluster),
                                        task_arn |-> Some(launched + k),
                                        last_status |-> Some("PROVISIONING")]]])],
                         "output")
            \/ /\ Call(i, "run_task", req, FALSE)
               /\ UNCHANGED launched
               /\ Return(i, l, Err("run_task"))
    /\ UNCHANGED tracker

\* Mutant of RunTask: a failed submission is reported to the tracker.
RunTask_Compensates(i) ==
    LET l    == inv[i]
        req  == RunTaskRequest(l)
        comp == [DefaultPipeline EXCEPT !.state_machine_id = l.state_machine_id,
                                        !.state = Some("Failed")]
    IN
    /\ l.pc = "run_task"
    /\ \/ \E n \in 0..req.count :
            /\ Call(i, "run_task", req, TRUE)
            /\ launched' = launched + n
            /\ UNCHANGED tracker
            /\ Goto(i, [l EXCEPT !.run_task_output =
                          Some([tasks |-> [k \in 1..n |->
                                  [cluster_arn |-> Some(req.cluster),
                                   task_arn |-> Some(launched + k),
                                   last_status |-> Some("PROVISIONING")]]])],
                    "output")
       \/ /\ calls' = [calls EXCEPT ![i] =
                          @ \o << [op |-> "run_task", arg |-> req, ok |-> FALSE],
                                  [op |-> "update_pipeline", arg |-> comp, ok |-> TRUE] >>]
          /\ tracker' = Append(tracker, comp)
          /\ UNCHANGED launched
          /\ Return(i, l, Err("run_task"))

\* ecs_client.run_task()...send().await?: the service starts up to `count`
\* tasks and lists the ones it started.
RunTask(i) ==
    LET l   == inv[i]
        req == RunTaskRequest(l)
    IN
    /\ l.pc = "run_task"
    /\ \/ \E n \in 0..req.count :
            /\ Call(i, "run_task", req, TRUE)
            /\ launched' = launched + n
            /\ Goto(i, [l EXCEPT !.run_task_output =
                          Some([tasks |-> [k \in 1..n |->
                                  [cluster_arn |-> Some(req.cluster),
                                   task_arn |-> Some(launched + k),
                                   last_status |-> Some("PROVISIONING")]]])],
                    "output")
       \/ /\ Call(i, "run_task", req, FALSE)
          /\ UNCHANGED launched
          /\ Return(i, l, Err("run_task"))
    /\ UNCHANGED tracker

\* Mutant of TaskOutputOf: the output does not carry the request's context.
TaskOutputOf_DropsContext(task, context) ==
    [ecs_cluster_arn |-> Unwrap(task.cluster_arn),
     task_arn |-> Unwrap(task.task_arn),
     last_status |-> Unwrap(task.last_status),
     context |-> [execution |-> None]]

\* The TaskOutput assembled from the first task of the response.
TaskOutputOf(task, context) ==
    [ecs_cluster_arn |-> Unwrap(task.cluster_arn),
     task_arn |-> Unwrap(task.task_arn),
     last_status |-> Unwrap(task.last_status),
     context |-> context]

\* let task = run_task_output.tasks().first().unwrap(); and the output.
PrepareOutput(i) ==
    LET l     == inv[i]
        tasks == Unwrap(l.run_task_output).tasks
    IN
    /\ l.pc = "output"
    /\ IF tasks = <<>>
       THEN Panic(i, l, "unwrap on None: tasks().first()")
       ELSE IF ~(IsSome(tasks[1].cluster_arn) /\ IsSome(tasks[1].task_arn)
                 /\ IsSome(tasks[1].last_status))
       THEN Panic(i, l, "unwrap on None: task field")
       ELSE Goto(i, [l EXCEPT !.output =
                       Some(TaskOutputOf(tasks[1], Unwrap(l.payload).context))],
                 "update_pipeline_post")
    /\ UNCHANGED <<calls, tracker, launched>>

\* Mutant of HandlerResult: the report's failure is dropped.
HandlerResult_IgnoresReport(reported, output) == Ok(output)

\* update_pipeline(url, &auth, &pipeline)?; Ok(output)
HandlerResult(reported, output) ==
    IF reported THEN Ok(output) ELSE Err("update_pipeline")

UpdatePipelinePost(i) ==
    LET l        == inv[i]
        pipeline == PostDispatchPipeline(Unwrap(l.state_machine_id),
                                         Unwrap(l.run_task_output).tasks[1])
    IN
    /\ l.pc = "update_pipeline_post"
    /\ \/ /\ Call(i, "update_pipeline", pipeline, TRUE)
          /\ tracker' = Append(tracker, pipeline)
          /\ Return(i, l, HandlerResult(TRUE, Unwrap(l.output)))
       \/ /\ Call(i, "update_pipeline", pipeline, FALSE)
          /\ UNCHANGED tracker
          /\ Return(i, l, HandlerResult(FALSE, Unwrap(l.output)))
    /\ UNCHANGED launched

Next ==
    \E i \in Invocations :
        \/ Invoke(i)
        \/ Authenticate(i)
        \/ ReadInputs(i)
        \/ UpdatePipelinePre(i)
        \/ PrepareAwsClient(i)
        \/ GetSecret(i)
        \/ GetParameter(i)
        \/ ParseDatabaseUrl(i)
        \/ SetDatabaseHost(i)
        \/ PrepareCommand(i)
        \/ RunTask(i)
        \/ PrepareOutput(i)
        \/ UpdatePipelinePost(i)

Spec == Init /\ [][Next]_vars

\* The invoking runtime's deadline fires while invocation i is running: the
\* invocation is cancelled where it stands and makes no further step.
DeadlineFires(i) ==
    /\ inv[i].pc \notin {"idle", "cancelled"} \cup Finished
    /\ inv' = [inv EXCEPT ![i].pc = "cancelled"]
    /\ UNCHANGED <<calls, tracker, launched, brochure, city>>

NextDeadline ==
    \/ Next
    \/ \E i \in Invocations : DeadlineFires(i)

\* Invocations under a deadline.
SpecDeadline == Init /\ [][NextDeadline]_vars

\* A step of function_handler in invocation i.
HandlerStep(i) ==
    \/ Authenticate(i)
    \/ ReadInputs(i)
    \/ UpdatePipelinePre(i)
    \/ PrepareAwsClient(i)
    \/ GetSecret(i)
    \/ GetParameter(i)
    \/ ParseDatabaseUrl(i)
    \/ SetDatabaseHost(i)
    \/ PrepareCommand(i)
    \/ RunTask(i)
    \/ PrepareOutput(i)
    \/ UpdatePipelinePost(i)

\* Number of times the caller retries a step that did not succeed.
MaxRetries == 1

RetryInvocations == 1..(MaxRetries + 1)

InitRetry ==
    /\ inv = [i \in RetryInvocations |-> IdleInvocation]
    /\ calls = [i \in RetryInvocations |-> <<>>]
    /\ tracker = <<>>
    /\ launched = 0
    /\ brochure = IdleBrochure
    /\ city = NoCity

\* The caller retries the whole step: invocation i receives the event of
\* invocation i - 1, which ended without a TaskOutput.
Retry(i) ==
    /\ i > 1
    /\ inv[i].pc = "idle"
    /\ inv[i - 1].pc \in Finished
    /\ inv[i - 1].result.kind # "Ok"
    /\ inv' = [inv EXCEPT ![i] = [@ EXCEPT !.pc = "authenticate",
                                           !.payload = inv[i - 1].payload]]
    /\ UNCHANGED <<calls, tracker, launched, brochure, city>>

NextRetry ==
    \/ Invoke(1)
    \/ \E i \in RetryInvocations : Retry(i)
    \/ \E i \in RetryInvocations : HandlerStep(i)

\* One step of the workflow, retried by its caller.
SpecRetry == InitRetry /\ [][NextRetry]_vars

\* Two invocations served at the same time, each by its own process.
ConcInvocations == {1, 2}

\* The events of the concurrent invocations.
ConcTaskInputs ==
    {p \in TaskInputs :
        /\ p.setup.neon.host = "ep-1.example"
        /\ IsSome(p.context.execution)
        /\ IsSome(p.analysis_parameters.region) = IsSome(p.analysis_parameters.fips_code)}

InitConc ==
    /\ inv = [i \in ConcInvocations |-> IdleInvocation]
    /\ calls = [i \in ConcInvocations |-> <<>>]
    /\ tracker = <<>>
    /\ launched = 0
    /\ brochure = IdleBrochure
    /\ city = NoCity

\* An event is delivered to invocation i, whatever the other one is doing.
InvokeConc(i) ==
    /\ inv[i].pc = "idle"
    /\ \E p \in ConcTaskInputs :
          inv' = [inv EXCEPT ![i] = [@ EXCEPT !.pc = "authenticate", !.payload = Some(p)]]
    /\ UNCHANGED <<calls, tracker, launched, brochure, city>>

NextConc ==
    \E i \in ConcInvocations :
        \/ InvokeConc(i)
        \/ HandlerStep(i)

\* Two invocations interleaved at every step.
SpecConc == InitConc /\ [][NextConc]_vars

\* ------------------------------------------------- the brochure pipeline

\* An entry of the output directory. unicode tells whether its file name is
\* valid UTF-8.
File(name, ext, unicode) == [name |-> name, ext |-> ext, unicode |-> unicode]

\* What the output directory may hold before the run.
PreExisting ==
    {File("old", "svg", TRUE), File("bad", "svg", FALSE), File("notes", "txt", TRUE)}

\* The brochures svggloo can generate.
GeneratedSvgs == {File("us-tn-bna", "svg", TRUE), File("ca-qc-mtl", "svg", TRUE)}

\* Outcomes of a file system operation.
FsOutcomes == {"ok", "io_error"}

\* Outcomes of Command::output(): the process could not be started, or it
\* ran and exited with a zero or non-zero status.
CommandOutcomes == {"spawn_failed", "exit_zero", "exit_nonzero"}

\* The steps of main, in source order.
BrochureSteps ==
    <<"create_dir_all", "copy", "shortcodes", "svggloo", "collect", "inkscape", "bundler">>

\* Mutant of Propagated: the `?` also fires on a non-zero exit status.
Propagated_ChecksStatus(outcome) ==
    outcome \in {"io_error", "spawn_failed", "path_error", "exit_nonzero"}

\* The outcomes that are an Err, which `?` returns from main. The Output of
\* a command that ran is an Ok whatever its exit status, and is bound to
\* _output and dropped.
Propagated(outcome) == outcome \in {"io_error", "spawn_failed", "path_error"}

\* A step ends with the outcome: main returns the error or goes on to next.
StepDone(b, step, outcome, next) ==
    LET logged == [b EXCEPT !.log = Append(@, [step |-> step, outcome |-> outcome])]
    IN  brochure' =
           IF Propagated(outcome)
           THEN [logged EXCEPT !.pc = "returned", !.result = "Err"]
           ELSE [logged EXCEPT !.pc = next]

InitBrochure ==
    /\ inv = [i \in Invocations |-> IdleInvocation]
    /\ calls = [i \in Invocations |-> <<>>]
    /\ tracker = <<>>
    /\ launched = 0
    /\ \E d \in SUBSET PreExisting : brochure = [IdleBrochure EXCEPT !.dir = d]
    /\ city = NoCity

\* Lines 8-23: the error reporter is installed and the paths are resolved.
Setup ==
    /\ brochure.pc = "setup"
    /\ \E outcome \in {"ok", "path_error"} :
          brochure' = IF Propagated(outcome)
                      THEN [brochure EXCEPT !.pc = "returned", !.result = "Err"]
                      ELSE [brochure EXCEPT !.pc = "create_dir_all"]
    /\ UNCHANGED <<inv, calls, tracker, launched, city>>

CreateOutputDir ==
    /\ brochure.pc = "create_dir_all"
    /\ \E outcome \in FsOutcomes :
          StepDone(brochure, "create_dir_all", outcome, "copy")
    /\ UNCHANGED <<inv, calls, tracker, launched, city>>

CopyTemplate ==
    /\ brochure.pc = "copy"
    /\ \E outcome \in FsOutcomes :
          LET copied == IF outcome = "ok"
                        THEN brochure.dir \cup {File("brochure", "svg", TRUE)}
                        ELSE brochure.dir
          IN  StepDone([brochure EXCEPT !.dir = copied], "copy", outcome, "shortcodes")
    /\ UNCHANGED <<inv, calls, tracker, launched, city>>

Shortcodes ==
    /\ brochure.pc = "shortcodes"
    /\ \E outcome \in CommandOutcomes :
          LET written == IF outcome = "exit_zero"
                         THEN brochure.dir \cup {File("brochure", "csv", TRUE)}
                         ELSE brochure.dir
          IN  StepDone([brochure EXCEPT !.dir = written], "shortcodes", outcome, "svggloo")
    /\ UNCHANGED <<inv, calls, tracker, launched, city>>

\* The copy of the template is resolved before the command is built; a
\* command that exits non-zero may have written some of the brochures.
Svggloo ==
    /\ brochure.pc = "svggloo"
    /\ \E outcome \in {"path_error"} \cup CommandOutcomes :
       \E g \in SUBSET GeneratedSvgs :
          /\ outcome \in {"path_error", "spawn_failed"} => g = {}
          /\ outcome = "exit_zero" => g = GeneratedSvgs
          /\ StepDone([brochure EXCEPT !.dir = @ \cup g], "svggloo", outcome, "collect")
    /\ UNCHANGED <<inv, calls, tracker, launched, city>>

\* The walk keeps the names of the entries whose extension is svg; entries
\* it cannot read are skipped, and a name that is not UTF-8 panics.
CollectSvgs ==
    /\ brochure.pc = "collect"
    /\ LET svgs   == {f \in brochure.dir : f.ext = "svg"}
           logged == [step |-> "collect",
                      outcome |-> IF \A f \in svgs : f.unicode THEN "ok" ELSE "panicked"]
       IN  brochure' =
              IF \A f \in svgs : f.unicode
              THEN [brochure EXCEPT !.pc = "inkscape",
                                    !.log = Append(@, logged),
                                    !.svg_files = {f.name : f \in svgs}]
              ELSE [brochure EXCEPT !.pc = "panicked",
                                    !.log = Append(@, logged),
                                    !.result = "Panic"]
    /\ UNCHANGED <<inv, calls, tracker, launched, city>>

Inkscape ==
    /\ brochure.pc = "inkscape"
    /\ \E outcome \in CommandOutcomes :
          LET exported == IF outcome = "exit_zero"
                          THEN brochure.dir \cup
                                  {File(n, "pdf", TRUE) : n \in brochure.svg_files}
                          ELSE brochure.dir
          IN  StepDone([brochure EXCEPT !.dir = exported], "inkscape", outcome, "bundler")
    /\ UNCHANGED <<inv, calls, tracker, launched, city>>

\* The output directory is resolved before the command is built. After the
\* command main returns Ok(()).
Bundler ==
    /\ brochure.pc = "bundler"
    /\ \E outcome \in {"path_error"} \cup CommandOutcomes :
          LET logged == [brochure EXCEPT
                            !.log = Append(@, [step |-> "bundler", outcome |-> outcome])]
          IN  brochure' =
                 IF Propagated(outcome)
                 THEN [logged EXCEPT !.pc = "returned", !.result = "Err"]
                 ELSE [logged EXCEPT !.pc = "returned", !.result = "Ok"]
    /\ UNCHANGED <<inv, calls, tracker, launched, city>>

NextBrochure ==
    \/ Setup
    \/ CreateOutputDir
    \/ CopyTemplate
    \/ Shortcodes
    \/ Svggloo
    \/ CollectSvgs
    \/ Inkscape
    \/ Bundler

\* One run of the brochure pipeline.
SpecBrochure == InitBrochure /\ [][NextBrochure]_vars

\* ---------------------------------------------------------- scorecard City

\* Arguments of City::new. population is a u32 and ratings_rounded a u8;
\* ratings, an f64, is given in hundredths.
CityNames == {"Nashville", "Canada"}
CityCountries == {"United States", "Canada"}
CityStates == {None, Some("TN"), Some("")}
CityUuids == {"uuid-1"}
Populations == {0, 689447}
Ratings == {0, 5525}
RatingsRounded == {0, 255}

CityArguments ==
    [name : CityNames, country : CityCountries, state : CityStates, uuid : CityUuids,
     population : Populations, ratings : Ratings, ratings_rounded : RatingsRounded]

\* Mutant of CityNew: a missing state defaults to the city name.
CityNew_StateFromName(name, country, state, uuid, population, ratings, ratings_rounded) ==
    [name |-> name,
     country |-> country,
     state |-> IF IsSome(state) THEN Unwrap(state) ELSE name,
     uuid |-> uuid,
     population |-> population,
     ratings |-> ratings,
     ratings_rounded |-> ratings_rounded]

\* City::new.
CityNew(name, country, state, uuid, population, ratings, ratings_rounded) ==
    [name |-> name,
     country |-> country,
     state |-> IF IsSome(state) THEN Unwrap(state) ELSE country,
     uuid |-> uuid,
     population |-> population,
     ratings |-> ratings,
     ratings_rounded |-> ratings_rounded]

InitCity ==
    /\ inv = [i \in Invocations |-> IdleInvocation]
    /\ calls = [i \in Invocations |-> <<>>]
    /\ tracker = <<>>
    /\ launched = 0
    /\ brochure = IdleBrochure
    /\ \E a \in CityArguments : city = [args |-> Some(a), value |-> None]

\* City::new is called with the arguments.
New ==
    /\ IsSome(city.args)
    /\ city.value = None
    /\ LET a == Unwrap(city.args)
       IN  city' = [city EXCEPT !.value =
                       Some(CityNew(a.name, a.country, a.state, a.uuid,
                                    a.population, a.ratings, a.ratings_rounded))]
    /\ UNCHANGED <<inv, calls, tracker, launched, brochure>>

NextCity == New

\* One construction of a City.
SpecCity == InitCity /\ [][NextCity]_vars

\* ------------------------------------------------------------------ claims

\* Positions in invocation i's log of the calls of operation op.
CallsOf(i, op) == {k \in 1..Len(calls[i]) : calls[i][k].op = op}

\* Invocation i's RunTask submission succeeded.
Dispatched(i) == \E k \in CallsOf(i, "run_task") : calls[i][k].ok

\* Invocation i's RunTask response, once it has one.
TasksOf(i) == Unwrap(inv[i].run_task_output).tasks

\* C1: when the RunTask call succeeds and lists zero tasks, the invocation
\* does not panic, and it returns the checked error DispatchError::EmptyResult.
C1_EmptyTaskListIsCheckedError ==
    \A i \in Invocations :
        (IsSome(inv[i].run_task_output) /\ TasksOf(i) = <<>>)
        => /\ inv[i].pc # "panicked"
           /\ inv[i].pc = "returned" => inv[i].result = Err("DispatchError::EmptyResult")

\* C2: an invocation that returns Ok has reported at least twice, and its last
\* report carries a state that differs from the one reported before dispatch.
C2_FinalReportStateReflectsDispatch ==
    \A i \in Invocations :
        inv[i].result.kind = "Ok"
        => LET reports == CallsOf(i, "update_pipeline")
               first   == calls[i][CHOOSE k \in reports : \A j \in reports : k <= j].arg
               last    == calls[i][CHOOSE k \in reports : \A j \in reports : k >= j].arg
           IN  /\ Cardinality(reports) >= 2
               /\ IsSome(last.state)
               /\ last.state # first.state

\* Exactly one of region and fips_code is present.
Unpaired(ap) == IsSome(ap.region) # IsSome(ap.fips_code)

\* C3: with exactly one of region and fips_code present, building the command
\* ends the invocation with the error InvalidParameters, and no job is
\* submitted.
C3_UnpairedRegionIsInvalidParameters ==
    \A i \in Invocations :
        (IsSome(inv[i].payload) /\ Unpaired(Unwrap(inv[i].payload).analysis_parameters))
        => /\ CallsOf(i, "run_task") = {}
           /\ inv[i].container_command # <<>>
              => (inv[i].pc = "returned" /\ inv[i].result = Err("InvalidParameters"))

\* C4: every RunTask submission requests a task count of exactly 1.
C4_TaskCountIsOne ==
    \A i \in Invocations :
        \A k \in CallsOf(i, "run_task") : calls[i][k].arg.count = 1

C4_Witness ==
    \E i \in Invocations :
        /\ Dispatched(i)
        /\ IsSome(Unwrap(inv[i].payload).analysis_parameters.region)

\* The post-dispatch report of invocation i failed.
PostReportFailed(i) ==
    /\ Dispatched(i)
    /\ Len(calls[i]) > 0
    /\ calls[i][Len(calls[i])].op = "update_pipeline"
    /\ ~calls[i][Len(calls[i])].ok

\* C5: when the dispatch succeeded and the post-dispatch report failed, the
\* invocation returns an error, not the TaskOutput, and the launched task
\* stays launched.
C5_ReportFailureAfterDispatchIsError ==
    \A i \in Invocations :
        PostReportFailed(i)
        => /\ inv[i].pc = "returned"
           /\ inv[i].result.kind = "Err"
           /\ inv[i].result.output = None
           /\ launched >= 1

C5_Witness ==
    \E i \in Invocations : PostReportFailed(i) /\ inv[i].pc = "returned"

\* The external calls of one complete invocation, in order.
CallOrder ==
    <<"authenticate_service_account", "update_pipeline", "get_aws_secrets_value",
      "get_aws_parameter", "get_aws_parameter", "get_aws_parameter",
      "get_aws_parameter", "get_aws_parameter", "run_task", "update_pipeline">>

\* C6: the calls of an invocation are a prefix of authenticate, pre-dispatch
\* report, the six lookups, job submission, post-dispatch report, and each
\* call is made only after all the calls before it succeeded.
C6_CallsInOrder ==
    \A i \in Invocations :
        /\ Len(calls[i]) <= Len(CallOrder)
        /\ \A k \in 1..Len(calls[i]) :
              /\ calls[i][k].op = CallOrder[k]
              /\ k < Len(calls[i]) => calls[i][k].ok
              /\ k \in 3..8 => calls[i][k].arg = LookupOrder[k - 2]
        /\ Len(calls[i]) >= 2 => calls[i][2].arg.state = Some("Pipeline")

C6_Witness ==
    \E i \in Invocations : Len(calls[i]) = Len(CallOrder)

\* C7: a failed call is the last call of its invocation, which has ended with
\* an error; no call is issued twice; and an invocation that has ended makes
\* no further call.
C7_FailureAbortsWithoutRetry ==
    /\ [](\A i \in Invocations :
            /\ \A k \in 1..Len(calls[i]) :
                  ~calls[i][k].ok
                  => /\ k = Len(calls[i])
                     /\ inv[i].pc = "returned"
                     /\ inv[i].result.kind = "Err"
            /\ \A j, k \in 1..Len(calls[i]) :
                  (calls[i][j].op = calls[i][k].op /\ j # k)
                  => calls[i][j].arg # calls[i][k].arg)
    /\ [][\A i \in Invocations :
            inv[i].result.kind = "Err"
            => (calls'[i] = calls[i] /\ inv'[i] = inv[i])]_vars

C7_Witness ==
    \E i \in Invocations :
        /\ inv[i].result.kind = "Err"
        /\ Len(calls[i]) = 5
        /\ ~calls[i][5].ok

\* C8: the post-dispatch report carries the task reference of the task the
\* orchestration service launched.
C8_PostReportCarriesTaskHandle ==
    \A i \in Invocations :
        \A k \in CallsOf(i, "update_pipeline") :
            (\E d \in CallsOf(i, "run_task") : d < k)
            => calls[i][k].arg.fargate_task_id = TasksOf(i)[1].task_arn

\* C9: the submitted command is the 8 fixed-order elements when region is
\* absent, followed by region and fips_code when both are present.
C9_CommandList ==
    \A i \in Invocations :
        \A k \in CallsOf(i, "run_task") :
            LET ap      == Unwrap(inv[i].payload).analysis_parameters
                command == calls[i][k].arg.overrides.container_overrides[1].command
                fixed   == <<"-vv", "run", "--with-export", "s3", "--s3-bucket",
                             ParameterStore.BNA_BUCKET, ap.country, ap.city>>
            IN  /\ ~IsSome(ap.region) => command = fixed
                /\ (IsSome(ap.region) /\ IsSome(ap.fips_code))
                   => command = fixed \o <<Unwrap(ap.region), Unwrap(ap.fips_code)>>

C9_Witness ==
    \E i \in Invocations :
        /\ CallsOf(i, "run_task") # {}
        /\ IsSome(Unwrap(inv[i].payload).analysis_parameters.region)
        /\ IsSome(Unwrap(inv[i].payload).analysis_parameters.fips_code)

\* The DATABASE_URL value of a RunTask request.
DatabaseUrlOverride(req) == req.overrides.container_overrides[1].environment[1].value

\* C10: the url submitted as DATABASE_URL has the secret's scheme, user,
\* password, port and path and the request's compute endpoint host; when the
\* secret is not a url the invocation ends with the parse error and submits
\* no job.
C10_OnlyHostRewritten ==
    \A i \in Invocations :
        LET secret == UrlParse(inv[i].main_db_url) IN
        /\ \A k \in CallsOf(i, "run_task") :
              LET sent == UrlParse(DatabaseUrlOverride(calls[i][k].arg)) IN
              /\ secret.ok /\ sent.ok
              /\ sent.url.host = Some(Unwrap(inv[i].payload).setup.neon.host)
              /\ \A f \in {"scheme", "username", "password", "port", "path"} :
                    sent.url[f] = secret.url[f]
              /\ inv[i].main_db_url =
                    <<"postgres", ":", "//", "u", ":", "p", "@", "shared-host", ":", "5432", "/", "db">>
                 => DatabaseUrlOverride(calls[i][k].arg) =
                    <<"postgres", ":", "//", "u", ":", "p", "@",
                      Unwrap(inv[i].payload).setup.neon.host, ":", "5432", "/", "db">>
        /\ (inv[i].main_db_url # <<>> /\ ~secret.ok)
           => /\ CallsOf(i, "run_task") = {}
              /\ inv[i].pc \in {"url_parse", "returned"} \cup DOMAIN ParameterStore
              /\ (inv[i].pc = "returned" /\ \A k \in 1..Len(calls[i]) : calls[i][k].ok)
                 => inv[i].result = Err(secret.err)

C10_Witness ==
    \E i \in Invocations :
        /\ CallsOf(i, "run_task") # {}
        /\ IsSome(UrlParse(inv[i].main_db_url).url.password)
        /\ IsSome(UrlParse(inv[i].main_db_url).url.port)

\* C11: an invocation returns a TaskOutput only after all ten calls, the
\* post-dispatch report included, succeeded; the output's context is the
\* request's context and its cluster reference, task reference and last
\* status are those of the first task of the RunTask response.
C11_OutputOnlyOnFullSuccess ==
    \A i \in DOMAIN inv :
        /\ inv[i].result.kind = "Ok"
           => /\ Len(calls[i]) = Len(CallOrder)
              /\ \A k \in 1..Len(calls[i]) : calls[i][k].ok
              /\ inv[i].pc = "returned"
              /\ LET out  == Unwrap(inv[i].result.output)
                     task == TasksOf(i)[1]
                 IN  /\ out.context = Unwrap(inv[i].payload).context
                     /\ out.ecs_cluster_arn = Unwrap(task.cluster_arn)
                     /\ out.task_arn = Unwrap(task.task_arn)
                     /\ out.last_status = Unwrap(task.last_status)
        /\ inv[i].result.kind # "Ok" => inv[i].result.output = None

C11_Witness ==
    \E i \in DOMAIN inv :
        /\ inv[i].result.kind = "Ok"
        /\ Unwrap(inv[i].result.output).context = [execution |-> Some("exec-2")]

\* The lookup calls, successful or not, that invocation i made for `name`.
LookupsOf(i, name) ==
    {k \in CallsOf(i, "get_aws_secrets_value") \cup CallsOf(i, "get_aws_parameter") :
        calls[i][k].arg = name}

\* C12: an invocation that returns Ok looked each of the six names up exactly
\* once (DATABASE_URL as a secret, the others as parameters); an invocation
\* with a failed lookup ends with an error, holds no value for that name and
\* submits no job.
C12_SixLookupsNoFallback ==
    \A i \in DOMAIN inv :
        /\ inv[i].result.kind = "Ok"
           => \A n \in 1..Len(LookupOrder) :
                 /\ Cardinality(LookupsOf(i, LookupOrder[n])) = 1
                 /\ \A k \in LookupsOf(i, LookupOrder[n]) :
                       calls[i][k].op = IF LookupOrder[n] = "DATABASE_URL"
                                        THEN "get_aws_secrets_value"
                                        ELSE "get_aws_parameter"
        /\ \A n \in 1..Len(LookupOrder) :
              (\E k \in LookupsOf(i, LookupOrder[n]) : ~calls[i][k].ok)
              => /\ inv[i].pc = "returned"
                 /\ inv[i].result.kind = "Err"
                 /\ inv[i][LookupLocal[LookupOrder[n]]] = IdleInvocation[LookupLocal[LookupOrder[n]]]
                 /\ CallsOf(i, "run_task") = {}

C12_Witness ==
    \E i \in DOMAIN inv :
        /\ inv[i].result.kind = "Err"
        /\ \E k \in LookupsOf(i, "BNA_TASK_DEFINITION") : ~calls[i][k].ok

\* C13: every RunTask submission uses launch type Fargate, the resolved
\* cluster and task definition, a network configuration with the resolved
\* subnets and security groups and public-IP assignment enabled, and one
\* container override named brokenspoke-analyzer with the command list and
\* the single environment override DATABASE_URL, the host-rewritten secret.
C13_SubmissionShape ==
    \A i \in DOMAIN inv :
        \A k \in CallsOf(i, "run_task") :
            LET req     == calls[i][k].arg
                vpc     == req.network_configuration.awsvpc_configuration
                over    == req.overrides.container_overrides
                p       == Unwrap(inv[i].payload)
                rewrite == UrlSetHost(UrlParse(inv[i].main_db_url).url, p.setup.neon.host)
            IN  /\ req.launch_type = "FARGATE"
                /\ req.cluster = ParameterStore.BNA_CLUSTER_ARN
                /\ req.task_definition = ParameterStore.BNA_TASK_DEFINITION
                /\ vpc.subnets = <<ParameterStore.PRIVATE_SUBNETS>>
                /\ vpc.security_groups = <<ParameterStore.BNA_TASK_SECURITY_GROUP>>
                /\ vpc.assign_public_ip = "ENABLED"
                /\ Len(over) = 1
                /\ over[1].name = "brokenspoke-analyzer"
                /\ over[1].command =
                      ContainerCommand(ParameterStore.BNA_BUCKET, p.analysis_parameters).command
                /\ Len(over[1].environment) = 1
                /\ over[1].environment[1].name = "DATABASE_URL"
                /\ rewrite.ok
                /\ over[1].environment[1].value = UrlString(rewrite.url)

C13_Witness ==
    \E i \in DOMAIN inv :
        /\ CallsOf(i, "run_task") # {}
        /\ inv[i].main_db_url = <<"postgres", ":", "//", "shared-host", "/", "db">>

\* C17: every report of an invocation carries the execution id derived from
\* the request's context; the id is bound only after authentication succeeded
\* and before any report; when it cannot be derived the invocation ends with
\* an error having made no call but the authentication.
C17_ReportsCarryExecutionId ==
    \A i \in DOMAIN inv :
        /\ \A k \in CallsOf(i, "update_pipeline") :
              /\ IsSome(inv[i].state_machine_id)
              /\ calls[i][k].arg.state_machine_id = inv[i].state_machine_id
              /\ calls[i][k].arg.state_machine_id =
                    ExecutionIdsOf(Unwrap(inv[i].payload).context)
        /\ IsSome(inv[i].state_machine_id)
           => /\ Len(calls[i]) >= 1
              /\ calls[i][1].op = "authenticate_service_account"
              /\ calls[i][1].ok
        /\ (IsSome(inv[i].payload)
            /\ ~IsSome(ExecutionIdsOf(Unwrap(inv[i].payload).context)))
           => /\ inv[i].pc \in {"authenticate", "ids", "returned"}
              /\ inv[i].pc = "returned" => inv[i].result.kind = "Err"
              /\ \A k \in 1..Len(calls[i]) :
                    calls[i][k].op = "authenticate_service_account"

C17_Witness ==
    \E i \in DOMAIN inv :
        /\ Cardinality(CallsOf(i, "update_pipeline")) = 2
        /\ inv[i].state_machine_id = Some("exec-2")

\* The state the tracker last recorded for execution id `id`: the state of
\* the last accepted report for `id` that carries one.
TrackerState(id) ==
    LET with == {k \in 1..Len(tracker) :
                    tracker[k].state_machine_id = Some(id) /\ IsSome(tracker[k].state)}
    IN  IF with = {} THEN None
        ELSE tracker[CHOOSE k \in with : \A j \in with : k >= j].state

\* Invocation i has ended, by a result, a panic or its deadline.
Ended(i) == inv[i].pc \in Finished \cup {"cancelled"}

\* Invocation i's pre-dispatch report was accepted.
PreReported(i) == Len(calls[i]) >= 2 /\ calls[i][2].ok

\* C15: an invocation that ended after its pre-dispatch report was accepted
\* and without a successful submission has made no other report, has launched
\* no task, and leaves the tracker's last state for its execution id at
\* Pipeline.
C15_StaleTrackerAfterFailure ==
    \A i \in DOMAIN inv :
        (Ended(i) /\ PreReported(i) /\ ~Dispatched(i))
        => /\ CallsOf(i, "update_pipeline") = {2}
           /\ inv[i].run_task_output = None
           /\ TrackerState(Unwrap(inv[i].state_machine_id)) = Some("Pipeline")

\* The deadline fired between the last lookup and the submission.
C15_Witness ==
    \E i \in DOMAIN inv :
        /\ inv[i].pc = "cancelled"
        /\ PreReported(i)
        /\ Len(calls[i]) = 8
        /\ launched = 0
        /\ TrackerState(Unwrap(inv[i].state_machine_id)) = Some("Pipeline")

\* The invocations whose submission started a task.
Launchers == {i \in DOMAIN inv : IsSome(inv[i].run_task_output) /\ TasksOf(i) # <<>>}

\* Invocation i went past the preparation of the command.
PastCommand(i) ==
    /\ inv[i].container_command # <<>>
    /\ inv[i].pc \in {"output", "update_pipeline_post", "returned"}

OwnCallArg(i, k) ==
    LET p       == Unwrap(inv[i].payload)
        id      == Unwrap(ExecutionIdsOf(p.context))
        rewrite == UrlSetHost(UrlParse(inv[i].main_db_url).url, p.setup.neon.host)
        own     == [IdleInvocation EXCEPT
                      !.ecs_cluster_arn = ParameterStore.BNA_CLUSTER_ARN,
                      !.vpc_subnets = ParameterStore.PRIVATE_SUBNETS,
                      !.vpc_security_groups = ParameterStore.BNA_TASK_SECURITY_GROUP,
                      !.task_definition = ParameterStore.BNA_TASK_DEFINITION,
                      !.container_command =
                          ContainerCommand(ParameterStore.BNA_BUCKET,
                                           p.analysis_parameters).command,
                      !.database_url = Some(rewrite.url)]
    IN  CASE k = 1 -> <<>>
          [] k = 2 -> PreDispatchPipeline(id)
          [] k \in 3..8 -> LookupOrder[k - 2]
          [] k = 9 -> RunTaskRequest(own)
          [] k = 10 -> PostDispatchPipeline(id, TasksOf(i)[1])

\* The result of an ended invocation i, as its own calls determine it.
OwnResult(i) ==
    LET n == Len(calls[i]) IN
    /\ (n > 0 /\ ~calls[i][n].ok) => inv[i].result.kind = "Err"
    /\ inv[i].result.kind = "Ok"
       <=> (n = Len(CallOrder) /\ calls[i][n].ok)
    /\ inv[i].result.kind = "Ok"
       => inv[i].result.output =
             Some(TaskOutputOf(TasksOf(i)[1], Unwrap(inv[i].payload).context))

\* C14: with two invocations interleaved, the calls of each are the sequence
\* its own payload and responses determine, its result is the one its own
\* calls determine, and no step of one invocation changes the locals or the
\* calls of the other.
C14_InvocationsIndependent ==
    /\ [](\A i \in DOMAIN inv :
            /\ Len(calls[i]) <= Len(CallOrder)
            /\ \A k \in 1..Len(calls[i]) :
                  /\ calls[i][k].op = CallOrder[k]
                  /\ k < Len(calls[i]) => calls[i][k].ok
                  /\ calls[i][k].arg = OwnCallArg(i, k)
            /\ inv[i].pc \in Finished => OwnResult(i))
    /\ [][\A i, j \in DOMAIN inv :
            (i # j /\ (inv'[i] # inv[i] \/ calls'[i] # calls[i]))
            => (inv'[j] = inv[j] /\ calls'[j] = calls[j])]_vars

\* Both invocations ran to the end, their reports interleaved at the tracker.
C14_Witness ==
    /\ \A i \in DOMAIN inv : inv[i].result.kind = "Ok"
    /\ DOMAIN inv = ConcInvocations
    /\ inv[1].payload # inv[2].payload
    /\ Len(tracker) = 4
    /\ tracker[1].state_machine_id = Some("exec-2")
    /\ tracker[2].state_machine_id = Some("exec-1")
    /\ tracker[2].state = Some("Pipeline")
    /\ tracker[3].state_machine_id = Some("exec-2")

\* C18: the brochure pipeline performs its steps in the fixed order create
\* output directory, copy template, shortcodes, SVG generation, SVG
\* collection, PDF export, bundling. A step that could not be started is the
\* last one and the run ends with an error; a sub-command that started and
\* exited non-zero never ends the run, and a run in which every step was
\* performed ends with success.
C18_BrochureStepsInOrder ==
    LET log   == brochure.log
        n     == Len(log)
        ended == brochure.pc \in Finished
    IN  /\ n <= Len(BrochureSteps)
        /\ \A k \in 1..n :
              /\ log[k].step = BrochureSteps[k]
              /\ log[k].outcome \in {"io_error", "spawn_failed", "path_error"}
                 => (k = n /\ ended /\ brochure.result = "Err")
              /\ (log[k].outcome = "exit_nonzero" /\ k = n /\ ended)
                 => (k = Len(BrochureSteps) /\ brochure.result = "Ok")
        /\ brochure.result = "Ok"
           <=> /\ ended
               /\ n = Len(BrochureSteps)
               /\ \A k \in 1..n : log[k].outcome \in {"ok", "exit_zero", "exit_nonzero"}

\* Three sub-commands exited non-zero, every step ran and main returned Ok.
C18_Witness ==
    /\ brochure.result = "Ok"
    /\ Len(brochure.log) = Len(BrochureSteps)
    /\ brochure.log[3].outcome = "exit_nonzero"
    /\ brochure.log[4].outcome = "exit_nonzero"
    /\ brochure.log[6].outcome = "exit_nonzero"
    /\ brochure.log[7].outcome = "exit_zero"

\* C19: the state of a new City is the given state when one is supplied and
\* the country name when none is; every other field equals its argument.
C19_CityNewDefaultsStateToCountry ==
    IsSome(city.value) =>
        LET a == Unwrap(city.args)
            c == Unwrap(city.value)
        IN  /\ IsSome(a.state) => c.state = Unwrap(a.state)
            /\ a.state = None => c.state = a.country
            /\ c.name = a.name
            /\ c.country = a.country
            /\ c.uuid = a.uuid
            /\ c.population = a.population
            /\ c.ratings = a.ratings
            /\ c.ratings_rounded = a.ratings_rounded

\* A City built without a state, whose name differs from its country.
C19_Witness ==
    /\ IsSome(city.value)
    /\ Unwrap(city.args).state = None
    /\ Unwrap(city.args).name # Unwrap(city.args).country
    /\ Unwrap(city.value).state = "United States"

====
